---- MODULE Spec2Model ----
(***************************************************************************)
(* werkzeug.exceptions: the catalog of HTTP exception classes, the scan    *)
(* that builds default_exceptions, HTTPException.wrap, Aborter and abort.  *)
(*                                                                         *)
(* Python values are tagged records [t, s, n, l]; classes are named by     *)
(* their class name; an exception instance is a record of its attributes.  *)
(***************************************************************************)
EXTENDS Integers, Sequences, FiniteSets, TLC

VARIABLES
    pending,    \* _find_exceptions: the globals() items the loop has yet to visit
    all_names,  \* __all__
    dicts,      \* heap of dict objects; dicts[DefaultExceptionsId] is default_exceptions
    aborters,   \* Aborter objects: aborters[i] is the heap id of its self.mapping
    exc,        \* the exception instance last raised or constructed (NoExc: none)
    call,       \* the call that produced exc: its function and arguments
    returned,   \* whether the last call of an Aborter or of abort returned to its caller
    result      \* what the last method call on exc returned, and what it called

vars == <<pending, all_names, dicts, aborters, call, exc, returned, result>>

(***************************************************************************)
(* Bounds of the model.                                                    *)
(***************************************************************************)
MaxArgs == 2        \* extra positional arguments per call
MaxAborters == 1    \* private Aborter objects besides _aborter

(***************************************************************************)
(* Python values.                                                          *)
(***************************************************************************)
NoneV == [t |-> "None", s |-> "", n |-> 0, l |-> <<>>]
Unset == [t |-> "unset", s |-> "", n |-> 0, l |-> <<>>]   \* attribute not set
StrV(x) == [t |-> "str", s |-> x, n |-> 0, l |-> <<>>]
IntV(i) == [t |-> "int", s |-> "", n |-> i, l |-> <<>>]
ListV(xs) == [t |-> "list", s |-> "", n |-> 0, l |-> xs]
ObjV(id) == [t |-> "object", s |-> id, n |-> 0, l |-> <<>>] \* an object, by identity

\* isinstance(v, integer_types)
IsInteger(v) == v.t = "int"

\* bool(v): None, "", 0 and empty sequences are false
Truthy(v) ==
    CASE v.t = "None" -> FALSE
      [] v.t = "str" -> v.s # ""
      [] v.t = "int" -> v.n # 0
      [] v.t = "list" -> v.l # <<>>
      [] OTHER -> TRUE

\* hash(v) succeeds: lists are unhashable
Hashable(v) == v.t # "list"

\* str(v) of the values used as header parts
Str(v) ==
    CASE v.t = "None" -> "None"
      [] v.t = "str" -> v.s
      [] v.t = "int" -> ToString(v.n)
      [] OTHER -> "<" \o v.t \o ">"

\* repr(v), as "%r" and KeyError.__str__ render it
Repr(v) ==
    CASE v.t = "str" -> "'" \o v.s \o "'"
      [] OTHER -> Str(v)

\* sep.join(xs) for a sequence of strings
RECURSIVE Join(_, _)
Join(sep, xs) ==
    IF xs = <<>> THEN ""
    ELSE IF Len(xs) = 1 THEN xs[1]
    ELSE xs[1] \o sep \o Join(sep, Tail(xs))

(***************************************************************************)
(* The class catalog (class statements of the module, in source order).    *)
(***************************************************************************)
CatalogBases ==
    [ HTTPException |-> "Exception",
      BadRequest |-> "HTTPException",
      ClientDisconnected |-> "BadRequest",
      SecurityError |-> "BadRequest",
      BadHost |-> "BadRequest",
      Unauthorized |-> "HTTPException",
      Forbidden |-> "HTTPException",
      NotFound |-> "HTTPException",
      MethodNotAllowed |-> "HTTPException",
      NotAcceptable |-> "HTTPException",
      RequestTimeout |-> "HTTPException",
      Conflict |-> "HTTPException",
      Gone |-> "HTTPException",
      LengthRequired |-> "HTTPException",
      PreconditionFailed |-> "HTTPException",
      RequestEntityTooLarge |-> "HTTPException",
      RequestURITooLarge |-> "HTTPException",
      UnsupportedMediaType |-> "HTTPException",
      RequestedRangeNotSatisfiable |-> "HTTPException",
      ExpectationFailed |-> "HTTPException",
      ImATeapot |-> "HTTPException",
      UnprocessableEntity |-> "HTTPException",
      Locked |-> "HTTPException",
      FailedDependency |-> "HTTPException",
      PreconditionRequired |-> "HTTPException",
      TooManyRequests |-> "HTTPException",
      RequestHeaderFieldsTooLarge |-> "HTTPException",
      UnavailableForLegalReasons |-> "HTTPException",
      InternalServerError |-> "HTTPException",
      NotImplemented |-> "HTTPException",
      BadGateway |-> "HTTPException",
      ServiceUnavailable |-> "HTTPException",
      GatewayTimeout |-> "HTTPException",
      HTTPVersionNotSupported |-> "HTTPException" ]

OwnCode ==
    [ HTTPException |-> NoneV,
      BadRequest |-> IntV(400),
      Unauthorized |-> IntV(401),
      Forbidden |-> IntV(403),
      NotFound |-> IntV(404),
      MethodNotAllowed |-> IntV(405),
      NotAcceptable |-> IntV(406),
      RequestTimeout |-> IntV(408),
      Conflict |-> IntV(409),
      Gone |-> IntV(410),
      LengthRequired |-> IntV(411),
      PreconditionFailed |-> IntV(412),
      RequestEntityTooLarge |-> IntV(413),
      RequestURITooLarge |-> IntV(414),
      UnsupportedMediaType |-> IntV(415),
      RequestedRangeNotSatisfiable |-> IntV(416),
      ExpectationFailed |-> IntV(417),
      ImATeapot |-> IntV(418),
      UnprocessableEntity |-> IntV(422),
      Locked |-> IntV(423),
      FailedDependency |-> IntV(424),
      PreconditionRequired |-> IntV(428),
      TooManyRequests |-> IntV(429),
      RequestHeaderFieldsTooLarge |-> IntV(431),
      UnavailableForLegalReasons |-> IntV(451),
      InternalServerError |-> IntV(500),
      NotImplemented |-> IntV(501),
      BadGateway |-> IntV(502),
      ServiceUnavailable |-> IntV(503),
      GatewayTimeout |-> IntV(504),
      HTTPVersionNotSupported |-> IntV(505) ]

OwnDescription ==
    [ HTTPException |->
          NoneV,
      BadRequest |->
          StrV("The browser (or proxy) sent a request that this server could"
          \o " not understand."),
      Unauthorized |->
          StrV("The server could not verify that you are authorized to acces"
          \o "s the URL requested. You either supplied the wrong credentia"
          \o "ls (e.g. a bad password), or your browser doesn't understand"
          \o " how to supply the credentials required."),
      Forbidden |->
          StrV("You don't have the permission to access the requested resour"
          \o "ce. It is either read-protected or not readable by the serve"
          \o "r."),
      NotFound |->
          StrV("The requested URL was not found on the server. If you entere"
          \o "d the URL manually please check your spelling and try again."),
      MethodNotAllowed |->
          StrV("The method is not allowed for the requested URL."),
      NotAcceptable |->
          StrV("The resource identified by the request is only capable of ge"
          \o "nerating response entities which have content characteristic"
          \o "s not acceptable according to the accept headers sent in the"
          \o " request."),
      RequestTimeout |->
          StrV("The server closed the network connection because the browser"
          \o " didn't finish the request within the specified time."),
      Conflict |->
          StrV("A conflict happened while processing the request. The resour"
          \o "ce might have been modified while the request was being proc"
          \o "essed."),
      Gone |->
          StrV("The requested URL is no longer available on this server and "
          \o "there is no forwarding address. If you followed a link from "
          \o "a foreign page, please contact the author of this page."),
      LengthRequired |->
          StrV("A request with this method requires a valid <code>Content-Le"
          \o "ngth</code> header."),
      PreconditionFailed |->
          StrV("The precondition on the request for the URL failed positive "
          \o "evaluation."),
      RequestEntityTooLarge |->
          StrV("The data value transmitted exceeds the capacity limit."),
      RequestURITooLarge |->
          StrV("The length of the requested URL exceeds the capacity limit f"
          \o "or this server. The request cannot be processed."),
      UnsupportedMediaType |->
          StrV("The server does not support the media type transmitted in th"
          \o "e request."),
      RequestedRangeNotSatisfiable |->
          StrV("The server cannot provide the requested range."),
      ExpectationFailed |->
          StrV("The server could not meet the requirements of the Expect hea"
          \o "der"),
      ImATeapot |->
          StrV("This server is a teapot, not a coffee machine"),
      UnprocessableEntity |->
          StrV("The request was well-formed but was unable to be followed du"
          \o "e to semantic errors."),
      Locked |->
          StrV("The resource that is being accessed is locked."),
      FailedDependency |->
          StrV("The method could not be performed on the resource because th"
          \o "e requested action depended on another action and that actio"
          \o "n failed."),
      PreconditionRequired |->
          StrV("This request is required to be conditional; try using \"If-Ma"
          \o "tch\" or \"If-Unmodified-Since\"."),
      TooManyRequests |->
          StrV("This user has exceeded an allotted request count. Try again "
          \o "later."),
      RequestHeaderFieldsTooLarge |->
          StrV("One or more header fields exceeds the maximum size."),
      UnavailableForLegalReasons |->
          StrV("Unavailable for legal reasons."),
      InternalServerError |->
          StrV("The server encountered an internal error and was unable to c"
          \o "omplete your request. Either the server is overloaded or the"
          \o "re is an error in the application."),
      NotImplemented |->
          StrV("The server does not support the action requested by the brow"
          \o "ser."),
      BadGateway |->
          StrV("The proxy server received an invalid response from an upstre"
          \o "am server."),
      ServiceUnavailable |->
          StrV("The server is temporarily unable to service your request due"
          \o " to maintenance downtime or capacity problems. Please try ag"
          \o "ain later."),
      GatewayTimeout |->
          StrV("The connection to an upstream server timed out."),
      HTTPVersionNotSupported |->
          StrV("The server does not support the HTTP protocol version used i"
          \o "n the request.") ]

DeclarationOrder ==
    << "HTTPException",
       "BadRequest",
       "ClientDisconnected",
       "SecurityError",
       "BadHost",
       "Unauthorized",
       "Forbidden",
       "NotFound",
       "MethodNotAllowed",
       "NotAcceptable",
       "RequestTimeout",
       "Conflict",
       "Gone",
       "LengthRequired",
       "PreconditionFailed",
       "RequestEntityTooLarge",
       "RequestURITooLarge",
       "UnsupportedMediaType",
       "RequestedRangeNotSatisfiable",
       "ExpectationFailed",
       "ImATeapot",
       "UnprocessableEntity",
       "Locked",
       "FailedDependency",
       "PreconditionRequired",
       "TooManyRequests",
       "RequestHeaderFieldsTooLarge",
       "UnavailableForLegalReasons",
       "InternalServerError",
       "NotImplemented",
       "BadGateway",
       "ServiceUnavailable",
       "GatewayTimeout",
       "HTTPVersionNotSupported" >>

\* classes a caller defines and registers through Aborter(extra=...)
UserBases == [CustomKind |-> "HTTPException"]
UserCode == [CustomKind |-> IntV(999)]
UserDescription == [CustomKind |-> StrV("custom")]

\* built-in exception classes the module raises or wraps
BuiltinBases ==
    [ Exception |-> "object",
      LookupError |-> "Exception",
      KeyError |-> "LookupError",
      TypeError |-> "Exception",
      AttributeError |-> "Exception" ]

Bases == CatalogBases @@ UserBases @@ BuiltinBases

CatalogClasses == DOMAIN CatalogBases
HTTPClasses == CatalogClasses \cup DOMAIN UserBases

\* issubclass(a, b) for classes a and b
RECURSIVE IsSubclass(_, _)
IsSubclass(a, b) ==
    \/ a = b
    \/ /\ a \in DOMAIN Bases
       /\ IsSubclass(Bases[a], b)

\* cls.code, looked up along the bases
RECURSIVE ClassCode(_)
ClassCode(cls) ==
    IF cls \in DOMAIN OwnCode THEN OwnCode[cls]
    ELSE IF cls \in DOMAIN UserCode THEN UserCode[cls]
    ELSE ClassCode(Bases[cls])

\* cls.description, looked up along the bases
RECURSIVE ClassDescription(_)
ClassDescription(cls) ==
    IF cls \in DOMAIN OwnDescription THEN OwnDescription[cls]
    ELSE IF cls \in DOMAIN UserDescription THEN UserDescription[cls]
    ELSE ClassDescription(Bases[cls])

(***************************************************************************)
(* _find_exceptions: the scan of globals() that fills default_exceptions.  *)
(***************************************************************************)
DefaultExceptionsId == 1

EmptyDict == [k \in {} |-> ""]

\* globals() when _find_exceptions runs: the imports, then the classes
ImportedNames == << "sys", "integer_types", "text_type", "escape" >>
GlobalsOrder == ImportedNames \o DeclarationOrder

\* issubclass(obj, HTTPException) raises TypeError unless obj is a class
IsClass(obj) == obj \in DOMAIN Bases \/ obj = "text_type"

BadRequestFamily == {"BadRequest", "ClientDisconnected", "SecurityError", "BadHost"}

\* the positions of the BadRequest family in globals()
FamilySlots == {i \in 1..Len(GlobalsOrder) : GlobalsOrder[i] \in BadRequestFamily}

\* iteritems(globals()) guarantees no order (a hash order before Python 3.7):
\* every order of the four kinds that share code 400 is taken
ScanOrders ==
    { [i \in 1..Len(GlobalsOrder) |->
          IF i \in FamilySlots THEN p[i] ELSE GlobalsOrder[i]] :
      p \in { f \in [FamilySlots -> BadRequestFamily] :
                  \A a, b \in FamilySlots : a # b => f[a] # f[b] } }

\* the loop body without the issubclass test: a later class always replaces
FindExceptionsVisitOverwrites(obj, names, registry) ==
    LET is_http_exception == IF IsClass(obj) THEN IsSubclass(obj, "HTTPException")
                             ELSE FALSE
    IN  IF ~is_http_exception \/ ClassCode(obj) = NoneV
        THEN <<names, registry>>
        ELSE <<Append(names, obj),
               [k \in DOMAIN registry \cup {ClassCode(obj)} |->
                   IF k = ClassCode(obj) THEN obj ELSE registry[k]]>>

\* the loop body keeping whatever entry a code already has: the first class
\* visited for a code stays
FindExceptionsVisitFirstWins(obj, names, registry) ==
    LET is_http_exception == IF IsClass(obj) THEN IsSubclass(obj, "HTTPException")
                             ELSE FALSE
    IN  IF ~is_http_exception \/ ClassCode(obj) = NoneV
        THEN <<names, registry>>
        ELSE LET code == ClassCode(obj)
             IN  IF code \in DOMAIN registry
                 THEN <<Append(names, obj), registry>>
                 ELSE <<Append(names, obj),
                        [k \in DOMAIN registry \cup {code} |->
                            IF k = code THEN obj ELSE registry[k]]>>

\* the loop body with the arguments of issubclass exchanged: a class is
\* skipped when the entry is a subclass of it, so the more specific class stays
FindExceptionsVisitSubclassSwapped(obj, names, registry) ==
    LET is_http_exception == IF IsClass(obj) THEN IsSubclass(obj, "HTTPException")
                             ELSE FALSE
    IN  IF ~is_http_exception \/ ClassCode(obj) = NoneV
        THEN <<names, registry>>
        ELSE LET code == ClassCode(obj)
                 old_obj == IF code \in DOMAIN registry THEN registry[code] ELSE "None"
             IN  IF old_obj # "None" /\ IsSubclass(old_obj, obj)
                 THEN <<Append(names, obj), registry>>
                 ELSE <<Append(names, obj),
                        [k \in DOMAIN registry \cup {code} |->
                            IF k = code THEN obj ELSE registry[k]]>>

\* one iteration of the loop body on obj: the new <<__all__, default_exceptions>>
FindExceptionsVisit(obj, names, registry) ==
    LET is_http_exception == IF IsClass(obj) THEN IsSubclass(obj, "HTTPException")
                             ELSE FALSE
    IN  IF ~is_http_exception \/ ClassCode(obj) = NoneV
        THEN <<names, registry>>
        ELSE LET code == ClassCode(obj)
                 old_obj == IF code \in DOMAIN registry THEN registry[code] ELSE "None"
             IN  IF old_obj # "None" /\ IsSubclass(obj, old_obj)
                 THEN <<Append(names, obj), registry>>
                 ELSE <<Append(names, obj),
                        [k \in DOMAIN registry \cup {code} |->
                            IF k = code THEN obj ELSE registry[k]]>>

(***************************************************************************)
(* Exception instances.                                                    *)
(***************************************************************************)
\* a new object of class cls before __init__ runs; wrapped names the second
\* base of a class made by wrap ("" for a plain class)
NewInstance(cls, wrapped) ==
    [ cls |-> cls, wrapped |-> wrapped,
      description |-> NoneV,        \* the instance's own description, if assigned
      response |-> Unset,
      www_authenticate |-> Unset, valid_methods |-> Unset,
      length |-> Unset, units |-> Unset,
      args |-> <<>>,                \* BaseException.args
      show_exception |-> FALSE ]

NoExc == NewInstance("", "")

\* an instance of a built-in exception class carrying one message
BuiltinError(cls, message) == [NewInstance(cls, "") EXCEPT !.args = <<StrV(message)>>]

IsHTTPException(e) == e.cls \in HTTPClasses

\* keyword arguments: a set of [name, val]
KwNames(kwargs) == {p.name : p \in kwargs}
KwVal(kwargs, name) == (CHOOSE p \in kwargs : p.name = name).val

\* Python's binding of (*args, **kwargs) to the parameters params with the
\* defaults given: ok is FALSE where Python raises TypeError
Bind(params, defaults, args, kwargs) ==
    LET names == {params[i] : i \in 1..Len(params)}
        positional == {params[i] : i \in 1..Len(params) \cap 1..Len(args)}
    IN  IF \/ Len(args) > Len(params)
           \/ ~(KwNames(kwargs) \subseteq names)
           \/ KwNames(kwargs) \cap positional # {}
        THEN [ok |-> FALSE, v |-> defaults]
        ELSE [ok |-> TRUE,
              v |-> [nm \in names |->
                        IF nm \in positional
                        THEN args[CHOOSE i \in 1..Len(params) : params[i] = nm]
                        ELSE IF nm \in KwNames(kwargs) THEN KwVal(kwargs, nm)
                        ELSE defaults[nm]]]

\* HTTPException.__init__ with its two parameters taken in the other order
HTTPExceptionInitSwapped(self, description, response) ==
    LET s0 == [self EXCEPT !.args = <<>>]
        s1 == IF response # NoneV THEN [s0 EXCEPT !.description = response]
              ELSE s0
    IN  [s1 EXCEPT !.response = description]

\* HTTPException.__init__(self, description=None, response=None)
HTTPExceptionInit(self, description, response) ==
    LET s0 == [self EXCEPT !.args = <<>>]
        s1 == IF description # NoneV THEN [s0 EXCEPT !.description = description]
              ELSE s0
    IN  [s1 EXCEPT !.response = response]

\* Unauthorized.__init__(self, description=None, response=None, www_authenticate=None)
UnauthorizedInit(self, description, response, www_authenticate) ==
    LET s1 == HTTPExceptionInit(self, description, response)
        www == IF www_authenticate # NoneV /\ www_authenticate.t # "list"
               THEN ListV(<<Str(www_authenticate)>>)
               ELSE www_authenticate
    IN  [s1 EXCEPT !.www_authenticate = www]

\* MethodNotAllowed.__init__(self, valid_methods=None, description=None)
MethodNotAllowedInit(self, valid_methods, description) ==
    [HTTPExceptionInit(self, description, NoneV) EXCEPT !.valid_methods = valid_methods]

\* RequestedRangeNotSatisfiable.__init__(self, length=None, units="bytes", description=None)
RequestedRangeNotSatisfiableInit(self, length, units, description) ==
    [HTTPExceptionInit(self, description, NoneV) EXCEPT !.length = length, !.units = units]

\* the classes whose body defines __init__
DefinesInit ==
    {"HTTPException", "Unauthorized", "MethodNotAllowed", "RequestedRangeNotSatisfiable"}

\* the class whose __init__ a lookup starting at cls finds
RECURSIVE InitOwner(_)
InitOwner(cls) == IF cls \in DefinesInit THEN cls ELSE InitOwner(Bases[cls])

\* owner.__init__(self, *args, **kwargs): self initialised, or the TypeError raised
CallInit(owner, self, args, kwargs) ==
    CASE owner = "Unauthorized" ->
           LET b == Bind(<<"description", "response", "www_authenticate">>,
                         [description |-> NoneV, response |-> NoneV,
                          www_authenticate |-> NoneV], args, kwargs)
           IN  IF b.ok
               THEN UnauthorizedInit(self, b.v.description, b.v.response,
                                     b.v.www_authenticate)
               ELSE BuiltinError("TypeError", "__init__() got unexpected arguments")
      [] owner = "MethodNotAllowed" ->
           LET b == Bind(<<"valid_methods", "description">>,
                         [valid_methods |-> NoneV, description |-> NoneV], args, kwargs)
           IN  IF b.ok
               THEN MethodNotAllowedInit(self, b.v.valid_methods, b.v.description)
               ELSE BuiltinError("TypeError", "__init__() got unexpected arguments")
      [] owner = "RequestedRangeNotSatisfiable" ->
           LET b == Bind(<<"length", "units", "description">>,
                         [length |-> NoneV, units |-> StrV("bytes"),
                          description |-> NoneV], args, kwargs)
           IN  IF b.ok
               THEN RequestedRangeNotSatisfiableInit(self, b.v.length, b.v.units,
                                                     b.v.description)
               ELSE BuiltinError("TypeError", "__init__() got unexpected arguments")
      [] OTHER ->
           LET b == Bind(<<"description", "response">>,
                         [description |-> NoneV, response |-> NoneV], args, kwargs)
           IN  IF b.ok
               THEN HTTPExceptionInit(self, b.v.description, b.v.response)
               ELSE BuiltinError("TypeError", "__init__() got unexpected arguments")

\* cls(*args, **kwargs) for a class of the catalog or of a caller
Construct(cls, args, kwargs) ==
    IF cls \in HTTPClasses
    THEN CallInit(InitOwner(cls), NewInstance(cls, ""), args, kwargs)
    ELSE NewInstance(cls, "")    \* a callable that builds no exception

\* exception.__init__(self, *a) of a built-in exception class: sets args
ExceptionInit(self, a) == [self EXCEPT !.args = a]

\* exception.__str__(self) of the built-in classes: KeyError shows the repr
\* of a single argument, the others its str
ExceptionStr(exception, self) ==
    IF Len(self.args) = 0 THEN ""
    ELSE IF Len(self.args) = 1
         THEN IF exception = "KeyError" THEN Repr(self.args[1]) ELSE Str(self.args[1])
    ELSE "(...)"

\* newcls.__init__(self, arg=None, *args, **kwargs) of cls.wrap(exception):
\* super(cls, self) starts the lookup of __init__ after cls
WrapInit(cls, exception, self, arg, args, kwargs) ==
    LET s1 == CallInit(InitOwner(Bases[cls]), self, args, kwargs)
    IN  IF s1.cls = "TypeError" THEN s1
        ELSE IF arg = NoneV THEN ExceptionInit(s1, <<>>)
        ELSE ExceptionInit(s1, <<arg>>)

\* cls.wrap(exception)(*all): the first positional argument is arg
WrapConstruct(cls, exception, all, kwargs) ==
    IF "arg" \in KwNames(kwargs) /\ all # <<>>
    THEN BuiltinError("TypeError", "__init__() got multiple values for argument 'arg'")
    ELSE LET arg == IF all # <<>> THEN Head(all)
                    ELSE IF "arg" \in KwNames(kwargs) THEN KwVal(kwargs, "arg")
                    ELSE NoneV
             rest == IF all # <<>> THEN Tail(all) ELSE <<>>
             kw == {p \in kwargs : p.name # "arg"}
         IN  WrapInit(cls, exception, NewInstance(cls, exception), arg, rest, kw)

\* the description property without the test of show_exception
DescriptionIgnoresFlag(self) ==
    IF self.description # NoneV THEN self.description
    ELSE ClassDescription(self.cls)

\* self.description: the property of a class made by wrap, else the instance
\* attribute, else the class attribute
Description(self) ==
    LET base == IF self.description # NoneV THEN self.description
                ELSE ClassDescription(self.cls)
    IN  IF self.wrapped # ""
        THEN IF self.show_exception
             THEN StrV(Str(base) \o "\n" \o self.wrapped \o ": "
                       \o ExceptionStr(self.wrapped, self))
             ELSE base
        ELSE base

(***************************************************************************)
(* Rendering: get_headers, get_body, get_response.                         *)
(***************************************************************************)
NoResult ==
    [ op |-> "", error |-> "", ret |-> NoneV, headers |-> <<>>,
      status |-> NoneV, body |-> NoneV, calls |-> {} ]

\* the characters of a string, as iterating over it yields them
RECURSIVE Chars(_)
Chars(s) == IF s = "" THEN <<>> ELSE <<Head(s)>> \o Chars(Tail(s))

\* the classes whose body defines get_headers
DefinesGetHeaders == {"HTTPException", "Unauthorized", "MethodNotAllowed",
                      "RequestedRangeNotSatisfiable"}

RECURSIVE HeadersOwner(_)
HeadersOwner(cls) == IF cls \in DefinesGetHeaders THEN cls ELSE HeadersOwner(Bases[cls])

\* HTTPException.get_headers
HTTPExceptionGetHeaders(self, environ) ==
    [error |-> "", headers |-> << <<"Content-Type", "text/html">> >>]

\* Unauthorized.get_headers
UnauthorizedGetHeaders(self, environ) ==
    LET h == HTTPExceptionGetHeaders(self, environ)
    IN  IF self.www_authenticate = Unset
        THEN [error |-> "AttributeError", headers |-> <<>>]
        ELSE IF Truthy(self.www_authenticate)
        THEN [h EXCEPT !.headers =
                 Append(@, <<"WWW-Authenticate", Join(", ", self.www_authenticate.l)>>)]
        ELSE h

\* MethodNotAllowed.get_headers
MethodNotAllowedGetHeaders(self, environ) ==
    LET h == HTTPExceptionGetHeaders(self, environ)
        v == self.valid_methods
    IN  IF v = Unset
        THEN [error |-> "AttributeError", headers |-> <<>>]
        ELSE IF Truthy(v)
        THEN CASE v.t = "list" ->
                    [h EXCEPT !.headers = Append(@, <<"Allow", Join(", ", v.l)>>)]
               [] v.t = "str" ->
                    [h EXCEPT !.headers = Append(@, <<"Allow", Join(", ", Chars(v.s))>>)]
               [] OTHER -> [error |-> "TypeError", headers |-> <<>>]
        ELSE h

\* RequestedRangeNotSatisfiable.get_headers testing "if self.length:"
RequestedRangeNotSatisfiableGetHeadersTruthy(self, environ) ==
    LET h == [error |-> "", headers |-> << <<"Content-Type", "text/html">> >>]
    IN  IF self.length = Unset
        THEN [error |-> "AttributeError", headers |-> <<>>]
        ELSE IF Truthy(self.length)
        THEN IF self.length.t = "int"
             THEN [h EXCEPT !.headers =
                      Append(@, <<"Content-Range",
                                  Str(self.units) \o " */" \o ToString(self.length.n)>>)]
             ELSE [error |-> "TypeError", headers |-> <<>>]
        ELSE h

\* RequestedRangeNotSatisfiable.get_headers
RequestedRangeNotSatisfiableGetHeaders(self, environ) ==
    LET h == HTTPExceptionGetHeaders(self, environ)
    IN  IF self.length = Unset
        THEN [error |-> "AttributeError", headers |-> <<>>]
        ELSE IF self.length # NoneV
        THEN IF self.length.t = "int"
             THEN [h EXCEPT !.headers =
                      Append(@, <<"Content-Range",
                                  Str(self.units) \o " */" \o ToString(self.length.n)>>)]
             ELSE [error |-> "TypeError", headers |-> <<>>]
        ELSE h

\* self.get_headers(environ), by the class of self
GetHeadersOf(self, environ) ==
    CASE HeadersOwner(self.cls) = "Unauthorized" -> UnauthorizedGetHeaders(self, environ)
      [] HeadersOwner(self.cls) = "MethodNotAllowed" ->
             MethodNotAllowedGetHeaders(self, environ)
      [] HeadersOwner(self.cls) = "RequestedRangeNotSatisfiable" ->
             RequestedRangeNotSatisfiableGetHeaders(self, environ)
      [] OTHER -> HTTPExceptionGetHeaders(self, environ)

\* get_response testing "if self.response:" instead of "is not None"
GetResponseOfTruthy(self, environ) ==
    IF self.response = Unset
    THEN [NoResult EXCEPT !.op = "get_response", !.error = "AttributeError"]
    ELSE IF Truthy(self.response)
    THEN [NoResult EXCEPT !.op = "get_response", !.ret = self.response]
    ELSE LET h == GetHeadersOf(self, environ)
         IN  IF h.error # ""
             THEN [NoResult EXCEPT !.op = "get_response", !.error = h.error,
                                   !.calls = {"get_headers"}]
             ELSE [ op |-> "get_response", error |-> "", ret |-> ObjV("Response()"),
                    headers |-> h.headers, status |-> ClassCode(self.cls),
                    body |-> Description(self),
                    calls |-> {"get_headers", "get_body", "Response"} ]

\* HTTPException.get_response: the result record of the call.  The body is
\* kept as the description get_body renders (escape and HTTP_STATUS_CODES are
\* imports from other modules).
GetResponseOf(self, environ) ==
    IF self.response = Unset
    THEN [NoResult EXCEPT !.op = "get_response", !.error = "AttributeError"]
    ELSE IF self.response # NoneV
    THEN [NoResult EXCEPT !.op = "get_response", !.ret = self.response]
    ELSE LET h == GetHeadersOf(self, environ)
         IN  IF h.error # ""
             THEN [NoResult EXCEPT !.op = "get_response", !.error = h.error,
                                   !.calls = {"get_headers"}]
             ELSE [ op |-> "get_response", error |-> "", ret |-> ObjV("Response()"),
                    headers |-> h.headers, status |-> ClassCode(self.cls),
                    body |-> Description(self),
                    calls |-> {"get_headers", "get_body", "Response"} ]

(***************************************************************************)
(* Aborter and abort.                                                      *)
(***************************************************************************)
\* d.update(items)
Update(d, items) ==
    [k \in DOMAIN d \cup DOMAIN items |-> IF k \in DOMAIN items THEN items[k] ELSE d[k]]

NoExtra == [is_none |-> TRUE, items |-> EmptyDict]
Extra(items) == [is_none |-> FALSE, items |-> items]

\* Aborter.__init__ keeping the mapping it is given instead of a copy
AborterInitAliases(heap, mapping, extra) ==
    LET src == IF mapping = 0 THEN DefaultExceptionsId ELSE mapping
    IN  [ heap |-> IF extra.is_none THEN heap
                   ELSE [heap EXCEPT ![src] = Update(@, extra.items)],
          ref |-> src ]

\* Aborter.__init__(self, mapping, extra) on the heap: mapping is a heap id, or
\* 0 for None.  Yields the new heap and the id of self.mapping.
AborterInit(heap, mapping, extra) ==
    LET src == IF mapping = 0 THEN DefaultExceptionsId ELSE mapping
        copy == heap[src]
    IN  [ heap |-> Append(heap, IF extra.is_none THEN copy
                                ELSE Update(copy, extra.items)),
          ref |-> Len(heap) + 1 ]

\* how a call ended: the exception it raised, or a return to the caller
Raised(e) == [exc |-> e, returned |-> FALSE]

\* Aborter.__call__ building the exception without the extra arguments
AborterCallDropsArgs(mapping, code, args, kwargs) ==
    IF args = <<>> /\ kwargs = {} /\ ~IsInteger(code)
    THEN Raised(HTTPExceptionInit(NewInstance("HTTPException", ""), NoneV, code))
    ELSE IF ~Hashable(code)
    THEN Raised(BuiltinError("TypeError", "unhashable type"))
    ELSE IF code \notin DOMAIN mapping
    THEN Raised(BuiltinError("LookupError", "no exception for " \o Repr(code)))
    ELSE Raised(Construct(mapping[code], <<>>, {}))

\* Aborter.__call__ answering an unknown code with InternalServerError
AborterCallFallsBackTo500(mapping, code, args, kwargs) ==
    IF args = <<>> /\ kwargs = {} /\ ~IsInteger(code)
    THEN Raised(HTTPExceptionInit(NewInstance("HTTPException", ""), NoneV, code))
    ELSE IF ~Hashable(code)
    THEN Raised(BuiltinError("TypeError", "unhashable type"))
    ELSE IF code \notin DOMAIN mapping
    THEN Raised(Construct("InternalServerError", <<>>, {}))
    ELSE Raised(Construct(mapping[code], args, kwargs))

\* Aborter.__call__ returning the proxy exception instead of raising it
AborterCallReturnsProxy(mapping, code, args, kwargs) ==
    IF args = <<>> /\ kwargs = {} /\ ~IsInteger(code)
    THEN [exc |-> HTTPExceptionInit(NewInstance("HTTPException", ""), NoneV, code),
          returned |-> TRUE]
    ELSE IF ~Hashable(code)
    THEN Raised(BuiltinError("TypeError", "unhashable type"))
    ELSE IF code \notin DOMAIN mapping
    THEN Raised(BuiltinError("LookupError", "no exception for " \o Repr(code)))
    ELSE Raised(Construct(mapping[code], args, kwargs))

\* Aborter.__call__(self, code, *args, **kwargs) with self.mapping = mapping
AborterCall(mapping, code, args, kwargs) ==
    IF args = <<>> /\ kwargs = {} /\ ~IsInteger(code)
    THEN Raised(HTTPExceptionInit(NewInstance("HTTPException", ""), NoneV, code))
    ELSE IF ~Hashable(code)
    THEN Raised(BuiltinError("TypeError", "unhashable type"))
    ELSE IF code \notin DOMAIN mapping
    THEN Raised(BuiltinError("LookupError", "no exception for " \o Repr(code)))
    ELSE Raised(Construct(mapping[code], args, kwargs))

\* abort(status, *args, **kwargs)
AbortCall(heap, refs, status, args, kwargs) ==
    AborterCall(heap[refs[1]], status, args, kwargs)

(***************************************************************************)
(* Inputs.                                                                 *)
(***************************************************************************)
CatalogKinds == CatalogClasses \ {"HTTPException"}
CatalogCodes == {ClassCode(k).n : k \in CatalogKinds}

UnknownCode == IntV(999)

Selectors ==
    {IntV(c) : c \in CatalogCodes} \cup
    {UnknownCode, NoneV, StrV(""), StrV("text"), ObjV("resp"), ListV(<<"GET">>)}

ArgValues == {StrV("text"), ObjV("resp")}
ArgSeqs == UNION {[1..n -> ArgValues] : n \in 0..MaxArgs}

Kw(name, val) == {[name |-> name, val |-> val]}
KwargsSet ==
    { {},
      Kw("description", StrV("text")),
      Kw("response", ObjV("resp")),
      Kw("www_authenticate", StrV("Basic")),
      Kw("www_authenticate", ListV(<<"Basic", "Digest">>)),
      Kw("www_authenticate", ListV(<<>>)),
      Kw("valid_methods", ListV(<<"GET", "POST">>)),
      Kw("valid_methods", ListV(<<>>)),
      Kw("length", IntV(500)),
      Kw("length", IntV(0)) }

\* the extra arguments of one call: keywords come with at most one positional
CallInputs == {in \in ArgSeqs \X KwargsSet : Len(in[1]) <= 1 \/ in[2] = {}}

Environs == {NoneV, ObjV("environ")}
Exceptions == {"KeyError"}
Extras == {NoExtra, Extra(UnknownCode :> "CustomKind")}

(***************************************************************************)
(* State.                                                                  *)
(***************************************************************************)
NoCall == [fn |-> "", aborter |-> 0, code |-> NoneV, cls |-> "", exception |-> "",
           args |-> <<>>, kwargs |-> {}]

Idle == call = NoCall

\* the module is imported: the scan has ended and _aborter exists
Imported == pending = <<>> /\ aborters # <<>>

default_exceptions == dicts[DefaultExceptionsId]

\* the module when _find_exceptions() is called, globals() in source order
Init ==
    /\ pending = GlobalsOrder
    /\ all_names = <<"HTTPException">>
    /\ dicts = <<EmptyDict>>
    /\ aborters = <<>>
    /\ call = NoCall
    /\ exc = NoExc
    /\ returned = FALSE
    /\ result = NoResult

\* the same, for every order of globals()
InitScan ==
    /\ pending \in ScanOrders
    /\ all_names = <<"HTTPException">>
    /\ dicts = <<EmptyDict>>
    /\ aborters = <<>>
    /\ call = NoCall
    /\ exc = NoExc
    /\ returned = FALSE
    /\ result = NoResult

(***************************************************************************)
(* Actions.                                                                *)
(***************************************************************************)
\* one iteration of the loop of _find_exceptions
FindExceptionsStep ==
    /\ pending # <<>>
    /\ LET r == FindExceptionsVisit(Head(pending), all_names, default_exceptions)
       IN  /\ all_names' = r[1]
           /\ dicts' = [dicts EXCEPT ![DefaultExceptionsId] = r[2]]
    /\ pending' = Tail(pending)
    /\ UNCHANGED <<aborters, call, exc, returned, result>>

\* _aborter = Aborter(), once the scan has ended
CreateDefaultAborter ==
    /\ pending = <<>>
    /\ aborters = <<>>
    /\ LET a == AborterInit(dicts, 0, NoExtra)
       IN  /\ dicts' = a.heap
           /\ aborters' = <<a.ref>>
    /\ UNCHANGED <<pending, all_names, call, exc, returned, result>>

\* a caller builds a private Aborter(mapping, extra)
NewAborter(mapping, extra) ==
    /\ Idle
    /\ Len(aborters) < 1 + MaxAborters
    /\ LET a == AborterInit(dicts, mapping, extra)
       IN  /\ dicts' = a.heap
           /\ aborters' = Append(aborters, a.ref)
    /\ UNCHANGED <<pending, all_names, call, exc, returned, result>>

\* a caller assigns aborter.mapping[key] = cls on a private Aborter
MutateMapping(i, key, cls) ==
    /\ Idle
    /\ i \in 2..Len(aborters)
    /\ dicts' = [dicts EXCEPT ![aborters[i]] = Update(@, key :> cls)]
    /\ UNCHANGED <<pending, all_names, aborters, call, exc, returned, result>>

\* aborters[i](code, *args, **kwargs) on a private Aborter (_aborter is
\* called through abort)
Call(i, code, args, kwargs) ==
    /\ Idle
    /\ i \in 2..Len(aborters)
    /\ LET out == AborterCall(dicts[aborters[i]], code, args, kwargs)
       IN  /\ exc' = out.exc
           /\ returned' = out.returned
    /\ call' = [NoCall EXCEPT !.fn = "Aborter", !.aborter = i, !.code = code,
                              !.args = args, !.kwargs = kwargs]
    /\ result' = NoResult
    /\ UNCHANGED <<pending, all_names, dicts, aborters>>

\* abort(status, *args, **kwargs)
Abort(status, args, kwargs) ==
    /\ Idle
    /\ LET out == AbortCall(dicts, aborters, status, args, kwargs)
       IN  /\ exc' = out.exc
           /\ returned' = out.returned
    /\ call' = [NoCall EXCEPT !.fn = "abort", !.aborter = 1, !.code = status,
                              !.args = args, !.kwargs = kwargs]
    /\ result' = NoResult
    /\ UNCHANGED <<pending, all_names, dicts, aborters>>

\* cls(*args, **kwargs) for a catalog class
NewException(cls, args, kwargs) ==
    /\ Idle
    /\ exc' = Construct(cls, args, kwargs)
    /\ returned' = (exc'.cls # "TypeError")
    /\ call' = [NoCall EXCEPT !.fn = "new", !.cls = cls, !.args = args,
                              !.kwargs = kwargs]
    /\ result' = NoResult
    /\ UNCHANGED <<pending, all_names, dicts, aborters>>

\* cls.wrap(exception)(*args, **kwargs)
WrapNew(cls, exception, args, kwargs) ==
    /\ Idle
    /\ exc' = WrapConstruct(cls, exception, args, kwargs)
    /\ returned' = (exc'.cls # "TypeError")
    /\ call' = [NoCall EXCEPT !.fn = "wrap", !.cls = cls, !.exception = exception,
                              !.args = args, !.kwargs = kwargs]
    /\ result' = NoResult
    /\ UNCHANGED <<pending, all_names, dicts, aborters>>

\* e.show_exception = flag on an instance of a class made by wrap
SetShowException(flag) ==
    /\ exc.wrapped # ""
    /\ exc.show_exception # flag
    /\ exc' = [exc EXCEPT !.show_exception = flag]
    /\ result' = NoResult
    /\ UNCHANGED <<pending, all_names, dicts, aborters, call, returned>>

\* e.get_headers(environ)
GetHeaders(environ) ==
    /\ IsHTTPException(exc)
    /\ LET h == GetHeadersOf(exc, environ)
       IN  result' = [NoResult EXCEPT !.op = "get_headers", !.error = h.error,
                                      !.headers = h.headers]
    /\ UNCHANGED <<pending, all_names, dicts, aborters, call, exc, returned>>

\* e.get_response(environ)
GetResponse(environ) ==
    /\ IsHTTPException(exc)
    /\ result' = GetResponseOf(exc, environ)
    /\ UNCHANGED <<pending, all_names, dicts, aborters, call, exc, returned>>

\* a read of e.description
ReadDescription ==
    /\ IsHTTPException(exc)
    /\ result' = [NoResult EXCEPT !.op = "description", !.ret = Description(exc)]
    /\ UNCHANGED <<pending, all_names, dicts, aborters, call, exc, returned>>

\* the request ends and the instance is dropped
Discard ==
    /\ ~Idle
    /\ call' = NoCall
    /\ exc' = NoExc
    /\ returned' = FALSE
    /\ result' = NoResult
    /\ UNCHANGED <<pending, all_names, dicts, aborters>>

\* between requests: a caller configures an Aborter, aborts or builds an exception
Request ==
    \/ \E m \in {0} \cup {aborters[i] : i \in 1..Len(aborters)}, x \in Extras :
           NewAborter(m, x)
    \/ \E i \in 2..Len(aborters), k \in {IntV(404), UnknownCode} :
           MutateMapping(i, k, "CustomKind")
    \/ \E i \in 2..Len(aborters), code \in Selectors, in \in CallInputs :
           Call(i, code, in[1], in[2])
    \/ \E status \in Selectors, in \in CallInputs : Abort(status, in[1], in[2])
    \/ \E cls \in CatalogKinds, in \in CallInputs : NewException(cls, in[1], in[2])
    \/ \E cls \in CatalogKinds, x \in Exceptions, in \in CallInputs :
           WrapNew(cls, x, in[1], in[2])

\* the handling of the instance a request produced
Handle ==
    \/ \E flag \in BOOLEAN : SetShowException(flag)
    \/ \E environ \in Environs : GetHeaders(environ)
    \/ \E environ \in Environs : GetResponse(environ)
    \/ ReadDescription
    \/ Discard

\* the import of the module
NextScan == FindExceptionsStep \/ CreateDefaultAborter

Next ==
    \/ NextScan
    \/ Imported /\ Idle /\ Request
    \/ ~Idle /\ Handle

Spec == Init /\ [][Next]_vars

SpecScan == InitScan /\ [][NextScan]_vars

(***************************************************************************)
(* Properties.                                                             *)
(***************************************************************************)
\* the catalog as its class statements declare it: the one class that sets code c
DeclaredKind(c) == CHOOSE k \in DOMAIN OwnCode : OwnCode[k] = c
DeclaredRegistry == [c \in {IntV(n) : n \in CatalogCodes} |-> DeclaredKind(c)]

\* exc was raised by a call of an Aborter or of abort, with this mapping
Dispatched == call.fn \in {"Aborter", "abort"}
CalledMapping == dicts[aborters[call.aborter]]

\* the constructor of cls takes (description, response) first
PlainSignature(cls) == InitOwner(cls) \in {"HTTPException", "Unauthorized"}

\* C1: a call with an integer code that is a key of the mapping raises an
\* instance built by mapping[code] from exactly the extra arguments (or the
\* TypeError of that constructor call); abort(404) raises a NotFound and
\* abort(400) a plain BadRequest.
C1_DispatchBuildsMappedKind ==
    (Dispatched /\ IsInteger(call.code) /\ call.code \in DOMAIN CalledMapping) =>
        LET K == CalledMapping[call.code]
        IN  /\ ~returned
            /\ exc.cls \in {K, "TypeError"}
            /\ exc.wrapped = ""
            /\ (call.args = <<>> /\ call.kwargs = {}) =>
                   /\ exc.cls = K
                   /\ exc.description = NoneV
                   /\ exc.response = NoneV
            /\ (exc.cls = K /\ PlainSignature(K)) =>
                   /\ Len(call.args) >= 1 => exc.description = call.args[1]
                   /\ Len(call.args) >= 2 => exc.response = call.args[2]
                   /\ \A p \in call.kwargs :
                          /\ p.name = "description" => exc.description = p.val
                          /\ p.name = "response" => exc.response = p.val
            /\ (call.fn = "abort" /\ call.code = IntV(404) /\ call.args = <<>>
                    /\ call.kwargs = {}) => exc.cls = "NotFound"
            /\ (call.fn = "abort" /\ call.code = IntV(400) /\ call.args = <<>>
                    /\ call.kwargs = {}) => exc.cls = "BadRequest"

C1_Witness ==
    /\ call.fn = "abort"
    /\ call.code = IntV(404)
    /\ call.args = <<StrV("text"), ObjV("resp")>>
    /\ exc.cls = "NotFound"
    /\ exc.response = ObjV("resp")

\* C2: a call with an integer code that is no key of the mapping raises a
\* LookupError naming the code, never an HTTPException, with or without extra
\* arguments.
C2_UnknownCodeIsLookupError ==
    (Dispatched /\ IsInteger(call.code) /\ call.code \notin DOMAIN CalledMapping) =>
        /\ ~returned
        /\ exc.cls = "LookupError"
        /\ ~IsSubclass(exc.cls, "HTTPException")
        /\ exc.args = <<StrV("no exception for " \o ToString(call.code.n))>>

C2_Witness ==
    /\ call.fn = "abort"
    /\ call.code = UnknownCode
    /\ call.args # <<>>
    /\ exc.cls = "LookupError"

\* what get_response does when it passes exc.response through
PassesThrough(selector) ==
    result.op = "get_response" =>
        /\ result.error = ""
        /\ result.ret = selector
        /\ result.calls = {}

\* C3 as stated: every non-integer selector without extra arguments is
\* wrapped in a base HTTPException whose get_response returns the selector.
C3_EverySelectorPassesThrough ==
    (Dispatched /\ ~IsInteger(call.code) /\ call.args = <<>> /\ call.kwargs = {}) =>
        /\ ~returned
        /\ exc.cls = "HTTPException"
        /\ ClassCode(exc.cls) = NoneV
        /\ exc.response = call.code
        /\ PassesThrough(call.code)

\* C3, amended: the same for every non-integer selector other than None; for
\* None the base HTTPException carries no response and get_response builds a
\* new one from get_headers and get_body.
C3_NonNoneSelectorPassesThrough ==
    (Dispatched /\ ~IsInteger(call.code) /\ call.args = <<>> /\ call.kwargs = {}) =>
        /\ ~returned
        /\ exc.cls = "HTTPException"
        /\ ClassCode(exc.cls) = NoneV
        /\ exc.response = call.code
        /\ call.code # NoneV => PassesThrough(call.code)
        /\ (call.code = NoneV /\ result.op = "get_response") =>
               /\ result.ret = ObjV("Response()")
               /\ result.calls = {"get_headers", "get_body", "Response"}
               /\ result.status = NoneV

C3_Witness ==
    /\ call.fn = "abort"
    /\ call.code = StrV("")
    /\ result.op = "get_response"
    /\ result.ret = StrV("")

\* C4: whatever private Aborters are built, overlaid and mutated,
\* default_exceptions and the mapping of _aborter stay the declared catalog:
\* abort of an unknown code raises LookupError and abort of a catalog code
\* raises the catalog kind, while a private overlay {c: K} makes that
\* Aborter raise K().
C4_OverlayLeavesDefaultsUnchanged ==
    Imported =>
        /\ default_exceptions = DeclaredRegistry
        /\ dicts[aborters[1]] = DeclaredRegistry
        /\ (call.fn = "abort" /\ call.code = UnknownCode) => exc.cls = "LookupError"
        /\ (call.fn = "abort" /\ IsInteger(call.code) /\ call.code # UnknownCode) =>
               exc.cls \in {DeclaredKind(call.code), "TypeError"}
        /\ (call.fn = "Aborter" /\ call.aborter > 1 /\ call.args = <<>>
                /\ call.kwargs = {} /\ call.code \in DOMAIN CalledMapping
                /\ CalledMapping[call.code] = "CustomKind") =>
               /\ exc.cls = "CustomKind"
               /\ exc.description = NoneV

C4_Witness ==
    /\ Len(aborters) > 1
    /\ UnknownCode \in DOMAIN dicts[aborters[2]]
    /\ dicts[aborters[2]][IntV(404)] = "CustomKind"
    /\ call.fn = "abort"
    /\ call.code = UnknownCode
    /\ exc.cls = "LookupError"

\* C5: a call of an Aborter or of abort never returns: for every selector
\* and every extra arguments it ends by raising an exception.
C5_DispatchNeverReturns ==
    Dispatched =>
        /\ ~returned
        /\ exc # NoExc
        /\ IsSubclass(exc.cls, "Exception")

C5_Witness ==
    /\ call.fn = "abort"
    /\ call.code = ObjV("resp")
    /\ call.args # <<>>
    /\ call.kwargs # {}
    /\ ~returned
    /\ exc.cls = "LookupError"

\* C6: after the scan, for every order of globals(), default_exceptions has
\* exactly one entry per declared code, each entry's code is its key, the
\* entry is the class declared for the code, the entry for 400 is BadRequest,
\* and HTTPException (code None) is no entry.
C6_RegistryIsDeclaredCatalog ==
    pending = <<>> =>
        /\ DOMAIN default_exceptions = {IntV(n) : n \in CatalogCodes}
        /\ \A c \in DOMAIN default_exceptions :
               /\ ClassCode(default_exceptions[c]) = c
               /\ default_exceptions[c] = DeclaredKind(c)
               /\ default_exceptions[c] \in CatalogKinds
               /\ default_exceptions[c] \notin
                      {"ClientDisconnected", "SecurityError", "BadHost"}
        /\ default_exceptions[IntV(400)] = "BadRequest"

C6_Witness ==
    /\ pending = <<>>
    /\ all_names[2] = "BadHost"
    /\ default_exceptions[IntV(400)] = "BadRequest"

\* the header fields of exc hold values of the documented types
WellTypedFields ==
    /\ exc.valid_methods.t \in {"unset", "None", "list", "str"}
    /\ exc.length.t \in {"unset", "None", "int"}

\* ", ".join of at most two strings, written out
JoinedPair(l) == IF Len(l) = 1 THEN l[1] ELSE l[1] \o ", " \o l[2]

\* the kind-specific headers get_headers is to add for exc
ExpectedKindHeaders ==
    CASE exc.cls = "Unauthorized" ->
           IF exc.www_authenticate.t = "list" /\ exc.www_authenticate.l # <<>>
           THEN << <<"WWW-Authenticate", JoinedPair(exc.www_authenticate.l)>> >>
           ELSE <<>>
      [] exc.cls = "MethodNotAllowed" ->
           IF exc.valid_methods = ListV(<<"GET", "POST">>)
           THEN << <<"Allow", "GET, POST">> >>
           ELSE IF exc.valid_methods = StrV("text")
           THEN << <<"Allow", "t, e, x, t">> >>
           ELSE <<>>
      [] exc.cls = "RequestedRangeNotSatisfiable" ->
           IF exc.length = NoneV THEN <<>>
           ELSE << <<"Content-Range",
                     exc.units.s \o " */" \o (IF exc.length.n = 500 THEN "500" ELSE "0")>> >>
      [] OTHER -> <<>>

\* C7: get_headers of an instance of a catalog kind returns Content-Type:
\* text/html first and once, followed by the kind's header exactly when its
\* field is set: WWW-Authenticate for a non-empty www_authenticate, Allow for
\* non-empty valid_methods, Content-Range for a length that is not None.
C7_HeadersAreContentTypeThenKindHeader ==
    (result.op = "get_headers" /\ exc.cls \in CatalogKinds /\ exc.wrapped = ""
         /\ WellTypedFields) =>
        /\ result.error = ""
        /\ Len(result.headers) >= 1
        /\ result.headers[1] = <<"Content-Type", "text/html">>
        /\ Cardinality({i \in DOMAIN result.headers :
                            result.headers[i][1] = "Content-Type"}) = 1
        /\ Tail(result.headers) = ExpectedKindHeaders

C7_Witness ==
    /\ result.op = "get_headers"
    /\ exc.cls = "RequestedRangeNotSatisfiable"
    /\ exc.length = IntV(0)
    /\ result.headers = << <<"Content-Type", "text/html">>,
                           <<"Content-Range", "bytes */0">> >>

\* exc is an instance of BadRequest.wrap(KeyError) built from a key alone
BadRequestKeyErrorOfKey ==
    /\ call.fn = "wrap"
    /\ call.cls = "BadRequest"
    /\ call.exception = "KeyError"
    /\ Len(call.args) = 1
    /\ call.kwargs = {}

BadRequestText ==
    "The browser (or proxy) sent a request that this server could not understand."

KeyText == IF call.args[1] = StrV("text") THEN "'text'" ELSE "<object>"

\* what a read of the description of a BadRequestKeyError(key) is to give
C8_DescriptionFollowsFlag ==
    (BadRequestKeyErrorOfKey /\ result.op = "description") =>
        result.ret = IF exc.show_exception
                     THEN StrV(BadRequestText \o "\nKeyError: " \o KeyText)
                     ELSE StrV(BadRequestText)

\* C8: the description of a BadRequestKeyError built from a key is BadRequest's
\* description while show_exception is false, which it is on a new instance,
\* and that description, a newline, "KeyError: " and the key's message while
\* it is true; every read follows the flag's current value.
C8_BadRequestKeyErrorDescription ==
    /\ []C8_DescriptionFollowsFlag
    /\ [][(Idle /\ call'.fn = "wrap" /\ IsHTTPException(exc')) =>
              ~exc'.show_exception]_vars

C8_Witness ==
    /\ BadRequestKeyErrorOfKey
    /\ exc.show_exception
    /\ result.op = "description"
    /\ result.ret = StrV(BadRequestText \o "\nKeyError: 'text'")

\* C9 as stated: an instance of cls.wrap(exception) built from (arg, *rest)
\* has the kind's own fields as cls(*rest) has them, and the same headers.
C9_WrapForwardsToKindConstructor ==
    (call.fn = "wrap" /\ call.cls \in CatalogKinds) =>
        LET rest == IF call.args = <<>> THEN <<>> ELSE Tail(call.args)
            plain == Construct(call.cls, rest, {p \in call.kwargs : p.name # "arg"})
        IN  plain.cls # "TypeError" =>
                /\ exc.cls = call.cls
                /\ exc.www_authenticate = plain.www_authenticate
                /\ exc.valid_methods = plain.valid_methods
                /\ exc.length = plain.length
                /\ exc.units = plain.units
                /\ result.op = "get_headers" =>
                       /\ result.error = ""
                       /\ result.headers = GetHeadersOf(plain, NoneV).headers

\* the kind-specific fields of exc have their defaults
KindFieldsDefault ==
    /\ exc.cls = "Unauthorized" => exc.www_authenticate = NoneV
    /\ exc.cls = "MethodNotAllowed" => exc.valid_methods = NoneV
    /\ exc.cls = "RequestedRangeNotSatisfiable" =>
           exc.length = NoneV /\ exc.units = StrV("bytes")

\* exc was built by a catalog class from positional arguments alone: by
\* abort(code, *args) or by cls(*args)
BuiltFromPositionals ==
    /\ \/ call.fn = "abort" /\ IsInteger(call.code) /\ call.code # UnknownCode
       \/ call.fn = "new"
    /\ Len(call.args) >= 1
    /\ call.kwargs = {}
    /\ exc.cls # "TypeError"

BuiltKind == IF call.fn = "new" THEN call.cls ELSE DeclaredKind(call.code)

\* the first positional argument is the description, the second the response
DescriptionThenResponse ==
    /\ exc.description = call.args[1]
    /\ Description(exc) = call.args[1]
    /\ exc.response = IF Len(call.args) >= 2 THEN call.args[2] ELSE NoneV

\* C10 as stated: every catalog kind takes (description, response) first.
C10_EveryKindTakesDescriptionFirst ==
    BuiltFromPositionals =>
        /\ exc.cls = BuiltKind
        /\ DescriptionThenResponse
        /\ Len(call.args) <= 2 => KindFieldsDefault

\* C10, amended: every catalog kind but MethodNotAllowed (405) and
\* RequestedRangeNotSatisfiable (416) takes (description, response) first.
\* MethodNotAllowed takes (valid_methods, description) and
\* RequestedRangeNotSatisfiable (length, units, description); neither takes a
\* response, and abort(405, text) and abort(416, text) leave the class's
\* description in place.
C10_KindsTakeDescriptionFirstBut405And416 ==
    BuiltFromPositionals =>
        /\ exc.cls = BuiltKind
        /\ exc.cls \notin {"MethodNotAllowed", "RequestedRangeNotSatisfiable"} =>
               /\ DescriptionThenResponse
               /\ Len(call.args) <= 2 => KindFieldsDefault
        /\ exc.cls = "MethodNotAllowed" =>
               /\ exc.valid_methods = call.args[1]
               /\ exc.description =
                      IF Len(call.args) >= 2 THEN call.args[2] ELSE NoneV
               /\ Len(call.args) = 1 =>
                      Description(exc) =
                          StrV("The method is not allowed for the requested URL.")
               /\ exc.response = NoneV
        /\ exc.cls = "RequestedRangeNotSatisfiable" =>
               /\ exc.length = call.args[1]
               /\ exc.units = IF Len(call.args) >= 2 THEN call.args[2]
                              ELSE StrV("bytes")
               /\ exc.description =
                      IF Len(call.args) >= 3 THEN call.args[3] ELSE NoneV
               /\ Len(call.args) <= 2 =>
                      Description(exc) =
                          StrV("The server cannot provide the requested range.")
               /\ exc.response = NoneV

C10_Witness ==
    /\ call.fn = "abort"
    /\ call.code = IntV(405)
    /\ call.args = <<StrV("text")>>
    /\ exc.cls = "MethodNotAllowed"
    /\ exc.valid_methods = StrV("text")

\* the description of exc without the message of the wrapped exception
BaseDescription ==
    IF exc.description # NoneV THEN exc.description ELSE ClassDescription(exc.cls)

\* C11 as stated: on an instance of a class made by wrap, a read of the
\* description gives the base description, a newline, the wrapped class's
\* name and the wrapped exception's message when args is not empty and
\* show_exception is true, and the plain base description in every other
\* case, also when show_exception is true and args is empty.
C11_MessageOnlyWhenArgsNotEmpty ==
    (call.fn = "wrap" /\ IsHTTPException(exc) /\ result.op = "description") =>
        result.ret = IF exc.args # <<>> /\ exc.show_exception
                     THEN StrV(Str(BaseDescription) \o "\n" \o exc.wrapped \o ": "
                               \o ExceptionStr(exc.wrapped, exc))
                     ELSE BaseDescription

\* neither class is a subclass of the other
Unrelated(a, b) == ~IsSubclass(a, b) /\ ~IsSubclass(b, a)

\* the scan is about to visit a class whose code already has an entry of a
\* class unrelated to it
VisitsUnrelatedKind ==
    /\ pending # <<>>
    /\ Head(pending) \in HTTPClasses
    /\ ClassCode(Head(pending)) \in DOMAIN default_exceptions
    /\ Unrelated(Head(pending), default_exceptions[ClassCode(Head(pending))])

\* C12 as stated: when the scan visits a class whose code already has an entry
\* of an unrelated class, the entry stays (the class visited first wins).
C12_FirstRegisteredWins ==
    [][VisitsUnrelatedKind =>
           default_exceptions'[ClassCode(Head(pending))] =
               default_exceptions[ClassCode(Head(pending))]]_vars

\* C12, amended: when the scan visits a class whose code already has an entry
\* of an unrelated class, the visited class replaces the entry (the class
\* visited last wins), it is added to __all__, and no other entry changes.
C12_LaterUnrelatedKindReplaces ==
    [][VisitsUnrelatedKind =>
           /\ default_exceptions'[ClassCode(Head(pending))] = Head(pending)
           /\ DOMAIN default_exceptions' = DOMAIN default_exceptions
           /\ \A c \in DOMAIN default_exceptions :
                  c # ClassCode(Head(pending)) =>
                      default_exceptions'[c] = default_exceptions[c]
           /\ all_names' = Append(all_names, Head(pending))]_vars

C12_Witness ==
    /\ Len(all_names) >= 3
    /\ all_names[Len(all_names) - 1] = "ClientDisconnected"
    /\ all_names[Len(all_names)] = "SecurityError"
    /\ default_exceptions[IntV(400)] = "SecurityError"

\* the scan has visited cls
Visited(cls) == \E i \in 1..Len(all_names) : all_names[i] = cls

\* C13: for every order in which the scan visits BadRequest,
\* ClientDisconnected, SecurityError and BadHost, the entry for 400 is
\* BadRequest from the visit of BadRequest on, whichever of its subclasses were
\* visited before it or are visited after it, and so it is when the scan ends.
C13_BadRequestHolds400InEveryOrder ==
    /\ Visited("BadRequest") =>
           /\ IntV(400) \in DOMAIN default_exceptions
           /\ default_exceptions[IntV(400)] = "BadRequest"
    /\ pending = <<>> =>
           /\ Visited("BadRequest")
           /\ \A k \in BadRequestFamily : Visited(k)
           /\ default_exceptions[IntV(400)] = "BadRequest"

\* the scan has ended after visiting the three subclasses before BadRequest
C13_Witness ==
    /\ pending = <<>>
    /\ SubSeq(all_names, 2, 5) =
           <<"ClientDisconnected", "SecurityError", "BadHost", "BadRequest">>
    /\ default_exceptions[IntV(400)] = "BadRequest"

====
